---- MODULE Spec2Model ----
(***************************************************************************)
(* Slackython: a Slack webhook notifier (src/slackython.py).               *)
(*                                                                         *)
(* The model keeps Python's object identity: dicts and lists live in a     *)
(* heap and are reached through references, so that copy.deepcopy, the     *)
(* in-place updates of _generate_message_slack and the aliasing of         *)
(* self.slack_supervisors are modelled as the interpreter performs them.   *)
(* Every statement of a send call is one step of the calling thread.       *)
(***************************************************************************)
EXTENDS Integers, Sequences, FiniteSets, TLC

VARIABLES
    self,     \* the Slackython instance: its four attributes
    heap,     \* address -> dict or list object
    ctor,     \* the arguments the constructor was called with
    frame,    \* thread -> locals and position of its current send call
    wire,     \* thread -> the POST requests its current call has issued
    served    \* whether a call on the instance has run to its end

vars == <<self, heap, ctor, frame, wire, served>>

----------------------------------------------------------------------------
(* Bounds of the model                                                     *)

MaxMembers == 2        \* longest list of user ids drawn as an input
MaxRetries == 4        \* largest budget of a direct _send_to_webhook call

(* Program constant: the default of the parameter retries.                 *)
DefaultRetries == 3

(* Caller threads: the sequential specification runs thread 1 alone, the   *)
(* concurrent one interleaves the two.                                     *)
Threads == {1, 2}

----------------------------------------------------------------------------
(* Python values                                                           *)

None == [none |-> TRUE]
Str(s) == [str |-> s]
Ref(a) == [ref |-> a]
IsRef(v) == "ref" \in DOMAIN v
IsStr(v) == "str" \in DOMAIN v

DictObj(items) == [dict |-> items]
ListObj(items) == [list |-> items]
IsDict(o) == "dict" \in DOMAIN o

(* Addresses are <<owner, serial, origin>>: owner 0 is the instance, owner *)
(* t > 0 the objects thread t's current call created or was handed.        *)
BaseTemplateAddr == <<0, 0, 1>>
BaseAttachmentsAddr == <<0, 0, 2>>
AttachmentTemplateAddr == <<0, 0, 3>>
SupervisorsAddr == <<0, 0, 4>>
ArgMembersAddr(t) == <<t, 0, 5>>
ArgDataAddr(t) == <<t, 0, 6>>
Fresh(a, t, k) == <<t, k, a[3]>>

(* d[key] = value on a dict object *)
DictSet(h, a, key, value) ==
    [h EXCEPT ![a] = DictObj([k \in DOMAIN h[a].dict \cup {key} |->
                                 IF k = key THEN value ELSE h[a].dict[k]])]

(* l.append(value) on a list object *)
ListAppend(h, a, value) ==
    [h EXCEPT ![a] = ListObj(Append(h[a].list, value))]

Children(h, a) ==
    IF IsDict(h[a])
    THEN {h[a].dict[k].ref : k \in {k \in DOMAIN h[a].dict : IsRef(h[a].dict[k])}}
    ELSE {h[a].list[i].ref : i \in {i \in 1..Len(h[a].list) : IsRef(h[a].list[i])}}

RECURSIVE ReachFrom(_, _, _)
ReachFrom(h, seen, frontier) ==
    IF frontier = {} THEN seen
    ELSE ReachFrom(h, seen \cup frontier,
                   (UNION {Children(h, a) : a \in frontier}) \ (seen \cup frontier))

CopyVal(v, t, k) == IF IsRef(v) THEN Ref(Fresh(v.ref, t, k)) ELSE v

CopyObj(o, t, k) ==
    IF IsDict(o)
    THEN DictObj([key \in DOMAIN o.dict |-> CopyVal(o.dict[key], t, k)])
    ELSE ListObj([i \in 1..Len(o.list) |-> CopyVal(o.list[i], t, k)])

(* Faulty variants of copy.deepcopy: no copy, and copy.copy.               *)
AliasCopy(h, a, t, k) == [heap |-> h, ref |-> a]

ShallowCopy(h, a, t, k) ==
    [heap |-> [b \in DOMAIN h \cup {Fresh(a, t, k)} |->
                  IF b = Fresh(a, t, k) THEN h[a] ELSE h[b]],
     ref |-> Fresh(a, t, k)]

(* copy.deepcopy(a), as the k-th copy thread t makes: every object         *)
(* reachable from a is duplicated and the references between the           *)
(* duplicates are redirected to the duplicates.                            *)
DeepCopy(h, a, t, k) ==
    LET R == ReachFrom(h, {}, {a})
        New == {Fresh(b, t, k) : b \in R}
    IN [heap |-> [b \in DOMAIN h \cup New |->
                     IF b \in New
                     THEN CopyObj(h[CHOOSE c \in R : Fresh(c, t, k) = b], t, k)
                     ELSE h[b]],
        ref |-> Fresh(a, t, k)]

(* json.dumps(v): the JSON value v denotes, references resolved.           *)
RECURSIVE JsonDumps(_, _)
JsonDumps(h, v) ==
    IF IsStr(v) THEN v.str
    ELSE IF IsDict(h[v.ref])
    THEN [k \in DOMAIN h[v.ref].dict |-> JsonDumps(h, h[v.ref].dict[k])]
    ELSE [i \in 1..Len(h[v.ref].list) |-> JsonDumps(h, h[v.ref].list[i])]

----------------------------------------------------------------------------
(* NotificationLevel                                                       *)

Levels == {"NORMAL", "INFORMATION", "CRITICAL"}

LevelValue(level) ==
    CASE level = "NORMAL" -> "#00C853"
      [] level = "INFORMATION" -> "#FFD600"
      [] level = "CRITICAL" -> "#d50000"

----------------------------------------------------------------------------
(* Inputs                                                                  *)

Webhooks == {"https://example.test/hook", "https://hooks.slack.com/services/T/B/X"}
UserIds == {"U1", "U2"}
Messages == {"", "disk full"}
Titles == {None, Str(""), Str("Slackython")}

MemberLists == UNION {[1..n -> UserIds] : n \in 0..MaxMembers}
MemberArgs == {None} \cup {[list |-> l] : l \in MemberLists}

(* What the constructor is given as slack_supervisors *)
SupervisorArgs ==
    {None} \cup {[list |-> l] : l \in {<<>>, <<"U1", "U2">>, <<"U2", "U1">>}}

(* Inputs of the concurrent specification *)
ConcMessages == {"disk full"}
ConcTitles == {None, Str("Slackython")}
ConcMemberArgs == {None, [list |-> <<"U2">>]}
ConcSupervisors == {[list |-> <<"U1">>]}

(* What one call of requests.post can produce: a response with a status    *)
(* code, or one of the exceptions of requests.exceptions.                  *)
StatusCodes == {200, 201, 500}
ExceptionClasses == {"Timeout", "TooManyRedirects", "ConnectionError"}
Outcomes == [status_code : StatusCodes] \cup [exc : ExceptionClasses]
NoOutcome == [none |-> TRUE]
IsResponse(o) == "status_code" \in DOMAIN o
IsException(o) == "exc" \in DOMAIN o
ConcOutcomes == {[status_code |-> 200], [status_code |-> 500], [exc |-> "Timeout"]}

(* requests.exceptions: every class derives from RequestException *)
IsSubclass(c, d) == c = d \/ d = "RequestException"

----------------------------------------------------------------------------
(* Construction: Slackython.__init__                                       *)

IdleFrame ==
    [pc |-> "idle", op |-> "none", message |-> "", title |-> None,
     tagged_members |-> None, level |-> "NORMAL", tagged_members_list |-> None,
     data |-> None, event |-> None, member |-> None, it |-> 0,
     retries |-> 0, retry |-> 0, response |-> NoOutcome, ncopy |-> 0,
     call |-> [message |-> "", title |-> None, tagged_members |-> None]]

StrList(l) == [i \in 1..Len(l) |-> Str(l[i])]

Construct(webhooks, supervisor_args) ==
    \E webhook \in webhooks, slack_supervisors \in supervisor_args :
        /\ ctor = [webhook |-> webhook, slack_supervisors |-> slack_supervisors]
        /\ self = [webhook_url |-> webhook,
                   slack_supervisors |-> Ref(SupervisorsAddr),
                   base_template |-> Ref(BaseTemplateAddr),
                   attachment_template |-> Ref(AttachmentTemplateAddr)]
        /\ heap = (SupervisorsAddr :>
                      ListObj(IF slack_supervisors = None THEN <<>>
                              ELSE StrList(slack_supervisors.list)))
               @@ (BaseTemplateAddr :>
                      DictObj([attachments |-> Ref(BaseAttachmentsAddr)]))
               @@ (BaseAttachmentsAddr :> ListObj(<<>>))
               @@ (AttachmentTemplateAddr :>
                      DictObj([text |-> Str(""), color |-> Str("")]))
        /\ frame = [t \in Threads |-> IdleFrame]
        /\ wire = [t \in Threads |-> <<>>]
        /\ served = FALSE

Init == Construct(Webhooks, SupervisorArgs)

InitConc == Construct(Webhooks, ConcSupervisors)

----------------------------------------------------------------------------
(* Entering a public operation                                             *)

AtRest(t) == frame[t].pc = "idle"

FrameRefs(f) ==
    {v.ref : v \in {w \in {f.tagged_members, f.tagged_members_list, f.data,
                           f.event} : IsRef(w)}}

(* The objects of thread t's call that nothing else refers to are          *)
(* reclaimed when the call is over.                                        *)
Reclaim(h, t) ==
    LET roots == {a \in DOMAIN h : a[1] = 0}
                 \cup UNION {FrameRefs(frame[u]) : u \in Threads \ {t}}
        live == ReachFrom(h, {}, roots)
    IN [a \in {b \in DOMAIN h : b[1] # t \/ b \in live} |-> h[a]]

(* The caller's argument list becomes an object of the call. *)
WithArgMembers(h, t, tagged_members) ==
    IF tagged_members = None THEN h
    ELSE [a \in DOMAIN h \cup {ArgMembersAddr(t)} |->
             IF a = ArgMembersAddr(t) THEN ListObj(StrList(tagged_members.list))
             ELSE h[a]]

ArgRef(t, tagged_members) ==
    IF tagged_members = None THEN None ELSE Ref(ArgMembersAddr(t))

Enter(t, op, level, first, message, title, tagged_members, passed) ==
    /\ AtRest(t)
    /\ heap' = WithArgMembers(heap, t, tagged_members)
    /\ frame' = [frame EXCEPT ![t] =
                    [IdleFrame EXCEPT !.pc = first, !.op = op, !.level = level,
                                      !.message = message, !.title = title,
                                      !.tagged_members = ArgRef(t, tagged_members),
                                      !.tagged_members_list = passed,
                                      !.call = [message |-> message, title |-> title,
                                                tagged_members |-> tagged_members]]]
    /\ UNCHANGED <<served, self, ctor, wire>>

(* Faulty variant: the supervisors stand in for a missing list, as in send_error. *)
PassedMembersOrSupervisors(s, tagged_members) ==
    IF tagged_members = None THEN s.slack_supervisors ELSE tagged_members

(* Lines 139-141 and 154-156: what send_message and send_information pass  *)
(* to _generate_message_slack as tagged_members.                           *)
PassedMembers(s, tagged_members) == tagged_members

send_message(t, message, title, tagged_members) ==
    Enter(t, "send_message", "NORMAL", "L113", message, title, tagged_members,
          PassedMembers(self, ArgRef(t, tagged_members)))

send_information(t, message, title, tagged_members) ==
    Enter(t, "send_information", "INFORMATION", "L113", message, title,
          tagged_members, PassedMembers(self, ArgRef(t, tagged_members)))

(* send_error: line 168, tagged_members_list = tagged_members. *)
send_error(t, message, title, tagged_members) ==
    Enter(t, "send_error", "CRITICAL", "L168", message, title, tagged_members,
          ArgRef(t, tagged_members))

(* Faulty variant: "if not tagged_members_list" instead of "is None". *)
TaggedMembersListFalsy(h, tagged_members, supervisors) ==
    IF tagged_members = None \/ h[tagged_members.ref].list = <<>>
    THEN supervisors ELSE tagged_members

(* Lines 169-170 *)
TaggedMembersList(h, tagged_members, supervisors) ==
    IF tagged_members = None THEN supervisors ELSE tagged_members

L168(t) ==
    /\ frame[t].pc = "L168"
    /\ frame' = [frame EXCEPT ![t].tagged_members_list =
                    TaggedMembersList(heap, frame[t].tagged_members,
                                      self.slack_supervisors),
                                ![t].pc = "L113"]
    /\ UNCHANGED <<served, self, heap, ctor, wire>>

----------------------------------------------------------------------------
(* _generate_message_slack, statement by statement                         *)

(* Faulty variant: "if title:" instead of "if title is not None:". *)
TitleGivenTruthy(title) == title # None /\ title.str # ""

(* Line 114 *)
TitleGiven(title) == title # None

(* Faulty variant: the closing bracket of the mention is lost. *)
MentionOpen(member) == "<@" \o member

(* Line 125: "<@{}>".format(member) *)
Mention(member) == "<@" \o member \o ">"

Goto(t, label) == frame' = [frame EXCEPT ![t].pc = label]

(* data = copy.deepcopy(self.base_template); if title is not None: ... *)
L113(t) ==
    /\ frame[t].pc = "L113"
    /\ LET c == DeepCopy(heap, self.base_template.ref, t, frame[t].ncopy + 1)
       IN /\ heap' = c.heap
          /\ frame' = [frame EXCEPT ![t].data = Ref(c.ref),
                                    ![t].ncopy = @ + 1,
                                    ![t].pc = "L114"]
    /\ UNCHANGED <<served, self, ctor, wire>>

L114(t) ==
    /\ frame[t].pc = "L114"
    /\ heap' = IF TitleGiven(frame[t].title)
               THEN DictSet(heap, frame[t].data.ref, "text", frame[t].title)
               ELSE heap
    /\ Goto(t, "L117")
    /\ UNCHANGED <<served, self, ctor, wire>>

(* event = copy.deepcopy(self.attachment_template) *)
L117(t) ==
    /\ frame[t].pc = "L117"
    /\ LET c == DeepCopy(heap, self.attachment_template.ref, t, frame[t].ncopy + 1)
       IN /\ heap' = c.heap
          /\ frame' = [frame EXCEPT ![t].event = Ref(c.ref),
                                    ![t].ncopy = @ + 1,
                                    ![t].pc = "L118"]
    /\ UNCHANGED <<served, self, ctor, wire>>

(* event["text"] = message *)
L118(t) ==
    /\ frame[t].pc = "L118"
    /\ heap' = DictSet(heap, frame[t].event.ref, "text", Str(frame[t].message))
    /\ Goto(t, "L119")
    /\ UNCHANGED <<served, self, ctor, wire>>

(* event["color"] = level.value *)
L119(t) ==
    /\ frame[t].pc = "L119"
    /\ heap' = DictSet(heap, frame[t].event.ref, "color",
                       Str(LevelValue(frame[t].level)))
    /\ Goto(t, "L120")
    /\ UNCHANGED <<served, self, ctor, wire>>

(* data["attachments"].append(event) *)
L120(t) ==
    /\ frame[t].pc = "L120"
    /\ heap' = ListAppend(heap, heap[frame[t].data.ref].dict["attachments"].ref,
                          frame[t].event)
    /\ Goto(t, "L122")
    /\ UNCHANGED <<served, self, ctor, wire>>

(* if tagged_members is not None: *)
L122(t) ==
    /\ frame[t].pc = "L122"
    /\ Goto(t, IF frame[t].tagged_members_list # None THEN "L123" ELSE "L129")
    /\ UNCHANGED <<served, self, heap, ctor, wire>>

(* for member in tagged_members: the list iterator reads the list anew *)
L123(t) ==
    /\ frame[t].pc = "L123"
    /\ LET l == heap[frame[t].tagged_members_list.ref].list
       IN frame' = IF frame[t].it < Len(l)
                   THEN [frame EXCEPT ![t].member = l[frame[t].it + 1],
                                      ![t].it = @ + 1,
                                      ![t].pc = "L124"]
                   ELSE [frame EXCEPT ![t].pc = "L129"]
    /\ UNCHANGED <<served, self, heap, ctor, wire>>

(* tagged_event = copy.deepcopy(self.attachment_template) *)
L124(t) ==
    /\ frame[t].pc = "L124"
    /\ LET c == DeepCopy(heap, self.attachment_template.ref, t, frame[t].ncopy + 1)
       IN /\ heap' = c.heap
          /\ frame' = [frame EXCEPT ![t].event = Ref(c.ref),
                                    ![t].ncopy = @ + 1,
                                    ![t].pc = "L125"]
    /\ UNCHANGED <<served, self, ctor, wire>>

(* tagged_event["text"] = "<@{}>".format(member) *)
L125(t) ==
    /\ frame[t].pc = "L125"
    /\ heap' = DictSet(heap, frame[t].event.ref, "text",
                       Str(Mention(frame[t].member.str)))
    /\ Goto(t, "L126")
    /\ UNCHANGED <<served, self, ctor, wire>>

(* tagged_event["color"] = level.value *)
L126(t) ==
    /\ frame[t].pc = "L126"
    /\ heap' = DictSet(heap, frame[t].event.ref, "color",
                       Str(LevelValue(frame[t].level)))
    /\ Goto(t, "L127")
    /\ UNCHANGED <<served, self, ctor, wire>>

(* data["attachments"].append(tagged_event) *)
L127(t) ==
    /\ frame[t].pc = "L127"
    /\ heap' = ListAppend(heap, heap[frame[t].data.ref].dict["attachments"].ref,
                          frame[t].event)
    /\ Goto(t, "L123")
    /\ UNCHANGED <<served, self, ctor, wire>>

(* return data, and the caller's self._send_to_webhook(data): retries      *)
(* takes its default.                                                      *)
L129(t) ==
    /\ frame[t].pc = "L129"
    /\ frame' = [frame EXCEPT ![t].retries = DefaultRetries,
                              ![t].retry = 0,
                              ![t].pc = "L79"]
    /\ UNCHANGED <<served, self, heap, ctor, wire>>

----------------------------------------------------------------------------
(* _send_to_webhook                                                        *)

(* A direct call with a payload of the caller's and a budget of its own. *)
_send_to_webhook(t, retries) ==
    /\ AtRest(t)
    /\ heap' = [a \in DOMAIN heap \cup {ArgDataAddr(t)} |->
                   IF a = ArgDataAddr(t) THEN DictObj([text |-> Str("ping")])
                   ELSE heap[a]]
    /\ frame' = [frame EXCEPT ![t] =
                    [IdleFrame EXCEPT !.pc = "L79", !.op = "_send_to_webhook",
                                      !.data = Ref(ArgDataAddr(t)),
                                      !.retries = retries]]
    /\ UNCHANGED <<served, self, ctor, wire>>

(* Faulty variant: one attempt too many. *)
RangeHasNextInclusive(retry, retries) == retry <= retries

(* Line 79: range(retries) has a next element after retry were taken *)
RangeHasNext(retry, retries) == retry < retries

(* Faulty variant: any 2xx status counts as success (response.ok). *)
IsSuccessAny2xx(status_code) == status_code >= 200 /\ status_code < 300

(* Line 87 *)
IsSuccess(status_code) == status_code = 200

(* Faulty variant: the catch-all clause of line 98 is missing. *)
ExceptClausesNoBase == <<"Timeout", "TooManyRedirects">>

(* Lines 94, 96, 98 *)
ExceptClauses == <<"Timeout", "TooManyRedirects", "RequestException">>

Caught(exc) == \E i \in 1..Len(ExceptClauses) : IsSubclass(exc, ExceptClauses[i])

(* Lines 81-85: the request one attempt sends *)
Request(h, url, data) ==
    [url |-> url,
     data |-> JsonDumps(h, data),
     headers |-> [ContentType |-> "application/json"]]

(* for retry in range(retries): *)
L79(t) ==
    /\ frame[t].pc = "L79"
    /\ frame' = IF RangeHasNext(frame[t].retry, frame[t].retries)
                THEN [frame EXCEPT ![t].retry = @ + 1, ![t].pc = "L81"]
                ELSE [frame EXCEPT ![t].pc = "returned"]
    /\ UNCHANGED <<served, self, heap, ctor, wire>>

(* One attempt: requests.post answers or raises. *)
L81(t, outcome) ==
    /\ frame[t].pc = "L81"
    /\ wire' = [wire EXCEPT ![t] =
                   Append(@, Request(heap, self.webhook_url, frame[t].data))]
    /\ frame' = [frame EXCEPT
                    ![t].response = outcome,
                    ![t].pc = IF IsResponse(outcome)
                              THEN IF IsSuccess(outcome.status_code)
                                   THEN "returned" ELSE "L79"
                              ELSE IF Caught(outcome.exc)
                                   THEN "L79" ELSE "raised"]
    /\ UNCHANGED <<served, self, heap, ctor>>

(* The call is over: control is back in the caller, with None as the       *)
(* value of the call or with the exception that escaped it; the call's     *)
(* locals are dropped.                                                     *)
Return(t) ==
    /\ frame[t].pc \in {"returned", "raised"}
    /\ frame' = [frame EXCEPT ![t] = IdleFrame]
    /\ heap' = Reclaim(heap, t)
    /\ wire' = [wire EXCEPT ![t] = <<>>]
    /\ served' = TRUE
    /\ UNCHANGED <<self, ctor>>

----------------------------------------------------------------------------
(* Specifications                                                          *)

Step(t, outcomes) ==
    \/ L168(t) \/ L113(t) \/ L114(t) \/ L117(t) \/ L118(t) \/ L119(t)
    \/ L120(t) \/ L122(t) \/ L123(t) \/ L124(t) \/ L125(t) \/ L126(t)
    \/ L127(t) \/ L129(t) \/ L79(t) \/ Return(t)
    \/ \E outcome \in outcomes : L81(t, outcome)

(* One caller: every input, calls one after the other. *)
Next ==
    \/ \E message \in Messages, title \in Titles, tagged_members \in MemberArgs :
          \/ send_message(1, message, title, tagged_members)
          \/ send_information(1, message, title, tagged_members)
          \/ send_error(1, message, title, tagged_members)
    \/ \E retries \in 0..MaxRetries : _send_to_webhook(1, retries)
    \/ Step(1, Outcomes)

Spec == Init /\ [][Next]_vars

(* Several callers sharing the instance, their statements interleaved. *)
NextConc ==
    \E t \in Threads :
        \/ \E message \in ConcMessages, title \in ConcTitles,
              tagged_members \in ConcMemberArgs :
              \/ send_message(t, message, title, tagged_members)
              \/ send_information(t, message, title, tagged_members)
              \/ send_error(t, message, title, tagged_members)
        \/ Step(t, ConcOutcomes)

SpecConc == InitConc /\ [][NextConc]_vars

----------------------------------------------------------------------------
(* What the properties speak of                                            *)

PublicOps == {"send_message", "send_information", "send_error"}

InTransport(t) == frame[t].pc \in {"L79", "L81", "returned", "raised"}

Is200(o) == IsResponse(o) /\ o.status_code = 200
IsFailure(o) == IsException(o) \/ (IsResponse(o) /\ o.status_code # 200)

(* The user ids of a list argument, None counting as no ids. *)
IdsOf(arg) == IF arg = None THEN <<>> ELSE arg.list

(* The user ids of the list object a value refers to. *)
StoredIds(h, v) == IF v = None THEN <<>> ELSE [i \in 1..Len(h[v.ref].list) |-> h[v.ref].list[i].str]

ColorTable == [NORMAL |-> "#00C853", INFORMATION |-> "#FFD600", CRITICAL |-> "#d50000"]

SeverityOf ==
    [send_message |-> "NORMAL", send_information |-> "INFORMATION", send_error |-> "CRITICAL"]

MentionTexts(ids) == [i \in 1..Len(ids) |-> "<@" \o ids[i] \o ">"]

Blocks(message, color, ids) ==
    <<[text |-> message, color |-> color]>>
    \o [i \in 1..Len(ids) |-> [text |-> "<@" \o ids[i] \o ">", color |-> color]]

TextsOf(blocks) == [i \in 1..Len(blocks) |-> blocks[i]["text"]]

(* The payload a call posts when it runs alone. *)
PayloadAlone(op, call, supervisors) ==
    LET ids == IF op = "send_error" /\ call.tagged_members = None
               THEN supervisors ELSE IdsOf(call.tagged_members)
        blocks == Blocks(call.message, ColorTable[SeverityOf[op]], ids)
    IN IF call.title = None THEN [attachments |-> blocks]
       ELSE [attachments |-> blocks, text |-> call.title.str]

----------------------------------------------------------------------------
(* C1: _send_to_webhook makes exactly min(b, k) attempts, k the position   *)
(* of the first 200: an attempt is never made beyond the budget b nor      *)
(* after a 200, the loop is left only with the budget used up or on a 200, *)
(* and the public operations run it with b = 3.                            *)
C1_AttemptsAreMinBudgetFirst200 ==
    [][\A t \in Threads :
          /\ Len(wire'[t]) > Len(wire[t]) =>
                /\ Len(wire'[t]) = Len(wire[t]) + 1
                /\ Len(wire'[t]) <= frame[t].retries
                /\ ~Is200(frame[t].response)
          /\ (frame[t].pc # "returned" /\ frame'[t].pc = "returned") =>
                /\ Len(wire'[t]) <= frame'[t].retries
                /\ Is200(frame'[t].response) \/ Len(wire'[t]) = frame'[t].retries
          /\ (frame'[t].op \in PublicOps /\ InTransport(t)') =>
                frame'[t].retries = 3
      ]_vars

C1_Witness ==
    /\ frame[1].pc = "returned"
    /\ frame[1].op = "_send_to_webhook"
    /\ frame[1].retries = 4
    /\ Len(wire[1]) = 2
    /\ Is200(frame[1].response)

(* C2: whatever the attempts answer, no exception escapes a send           *)
(* operation: after an attempt that did not answer 200 the call is back at *)
(* the loop head or has returned, also with the budget used up.            *)
C2_NoExceptionEscapes ==
    \A t \in Threads :
        /\ frame[t].pc # "raised"
        /\ (IsFailure(frame[t].response) /\ frame[t].pc # "L81") =>
               frame[t].pc \in {"L79", "returned"}
        /\ (IsFailure(frame[t].response) /\ frame[t].pc = "returned") =>
               Len(wire[t]) = frame[t].retries

C2_Witness ==
    /\ frame[1].pc = "returned"
    /\ frame[1].op = "send_error"
    /\ Len(wire[1]) = 3
    /\ frame[1].response = [exc |-> "ConnectionError"]

(* C3: every request of a send_error call tags the stored supervisors, in  *)
(* their order, when the call was given no list, and exactly the given     *)
(* list, the empty one included, when it was given one.                    *)
C3_SendErrorTags ==
    \A t \in Threads :
        frame[t].op = "send_error" =>
            \A i \in 1..Len(wire[t]) :
                Tail(TextsOf(wire[t][i].data["attachments"])) =
                    IF frame[t].call.tagged_members = None
                    THEN MentionTexts(StoredIds(heap, self.slack_supervisors))
                    ELSE MentionTexts(frame[t].call.tagged_members.list)

C3_Witness ==
    /\ frame[1].op = "send_error"
    /\ frame[1].call.tagged_members = [list |-> <<>>]
    /\ StoredIds(heap, self.slack_supervisors) = <<"U1", "U2">>
    /\ Len(wire[1]) = 2
    /\ Len(wire[1][2].data["attachments"]) = 1

(* C4: a request of send_message or send_information carries the message  *)
(* block alone when the call was given no list, whatever the supervisors   *)
(* are, and the mentions of the given list otherwise.                      *)
C4_NoDefaultRecipients ==
    \A t \in Threads :
        frame[t].op \in {"send_message", "send_information"} =>
            \A i \in 1..Len(wire[t]) :
                /\ frame[t].call.tagged_members = None =>
                       Len(wire[t][i].data["attachments"]) = 1
                /\ Tail(TextsOf(wire[t][i].data["attachments"])) =
                       MentionTexts(IdsOf(frame[t].call.tagged_members))

C4_Witness ==
    /\ frame[1].op = "send_information"
    /\ frame[1].call.tagged_members = None
    /\ StoredIds(heap, self.slack_supervisors) = <<"U2", "U1">>
    /\ Len(wire[1]) = 1
    /\ Len(wire[1][1].data["attachments"]) = 1

(* C5: the payload _generate_message_slack returns for message M, level S  *)
(* and n recipients has n+1 blocks: (M, color of S), then one mention      *)
(* block "<@id>" per recipient in order, all of the color of S.            *)
C5_PayloadBlocks ==
    \A t \in Threads :
        frame[t].pc = "L129" =>
            LET blocks == JsonDumps(heap, frame[t].data)["attachments"]
                ids == StoredIds(heap, frame[t].tagged_members_list)
            IN /\ Len(blocks) = Len(ids) + 1
               /\ blocks = Blocks(frame[t].message, ColorTable[frame[t].level], ids)
               /\ \A i \in 1..Len(blocks) : blocks[i]["color"] = blocks[1]["color"]

C5_Witness ==
    /\ frame[1].pc = "L129"
    /\ frame[1].level = "INFORMATION"
    /\ StoredIds(heap, frame[1].tagged_members_list) = <<"U2", "U1">>
    /\ Len(JsonDumps(heap, frame[1].data)["attachments"]) = 3

(* C6: the payload has the field "text" exactly when the call was given a  *)
(* title, the empty string included, and the field is that title.          *)
C6_TitleIffProvided ==
    \A t \in Threads :
        frame[t].op \in PublicOps =>
            \A i \in 1..Len(wire[t]) :
                /\ ("text" \in DOMAIN wire[t][i].data) <=> (frame[t].call.title # None)
                /\ frame[t].call.title # None =>
                       wire[t][i].data["text"] = frame[t].call.title.str

C6_Witness ==
    /\ frame[1].op = "send_message"
    /\ frame[1].call.title = Str("")
    /\ Len(wire[1]) = 1
    /\ wire[1][1].data["text"] = ""

(* C7: the instance is as constructed at every moment of every call: its   *)
(* URL, its supervisor list and its two templates; and what deepcopy hands *)
(* a call is an empty payload, with nothing of an earlier call in it.      *)
C7_InstanceUnchanged ==
    /\ self = [webhook_url |-> ctor.webhook,
               slack_supervisors |-> Ref(SupervisorsAddr),
               base_template |-> Ref(BaseTemplateAddr),
               attachment_template |-> Ref(AttachmentTemplateAddr)]
    /\ StoredIds(heap, self.slack_supervisors) = IdsOf(ctor.slack_supervisors)
    /\ JsonDumps(heap, self.base_template) = [attachments |-> <<>>]
    /\ JsonDumps(heap, self.attachment_template) = [text |-> "", color |-> ""]
    /\ \A t \in Threads :
           frame[t].pc = "L114" =>
               JsonDumps(heap, frame[t].data) = [attachments |-> <<>>]

C7_Witness ==
    /\ served
    /\ frame[1].pc = "returned"
    /\ frame[1].op = "send_error"
    /\ frame[1].call.title = Str("Slackython")
    /\ Len(wire[1]) = 3
    /\ Len(wire[1][3].data["attachments"]) = 3

(* C8: under every interleaving each request of a call carries the payload *)
(* the call posts when it runs alone, and the call makes the attempts its  *)
(* own outcomes decide: at most 3, and fewer only after its own 200.       *)
C8_ConcurrentSendsIndependent ==
    \A t \in Threads :
        /\ \A i \in 1..Len(wire[t]) :
               wire[t][i].data =
                   PayloadAlone(frame[t].op, frame[t].call,
                                IdsOf(ctor.slack_supervisors))
        /\ Len(wire[t]) <= 3
        /\ frame[t].pc = "returned" =>
               Is200(frame[t].response) \/ Len(wire[t]) = 3
        /\ Is200(frame[t].response) => frame[t].pc = "returned"

C8_Witness ==
    /\ frame[1].pc = "L81"
    /\ frame[2].pc = "L123"
    /\ Len(wire[1]) = 1
    /\ frame[1].op = "send_message"
    /\ frame[2].op = "send_error"

(* C9: an attempt that fails, by any exception or by any status but 200,   *)
(* takes the call back to the loop head with one attempt of the budget     *)
(* used, and the loop head starts the next attempt while budget remains.   *)
C9_FailuresTreatedAlike ==
    [][\A t \in Threads :
          /\ (Len(wire'[t]) = Len(wire[t]) + 1 /\ IsFailure(frame'[t].response)) =>
                /\ frame'[t].pc = "L79"
                /\ frame'[t].retry = Len(wire'[t])
          /\ (frame[t].pc = "L79" /\ frame'[t].pc # "L79"
                 /\ Len(wire[t]) < frame[t].retries) =>
                frame'[t].pc = "L81"
      ]_vars

C9_Witness ==
    /\ frame[1].pc = "L81"
    /\ frame[1].retry = 3
    /\ frame[1].response = [status_code |-> 201]

(* C10: the requests of one call all go to the URL the instance was given  *)
(* and are the same request, the payload being complete (no statement of   *)
(* the builder left to run) before the first one is sent.                  *)
C10_SamePayloadEveryAttempt ==
    \A t \in Threads :
        /\ wire[t] # <<>> => InTransport(t)
        /\ \A i \in 1..Len(wire[t]) :
               /\ wire[t][i].url = ctor.webhook
               /\ wire[t][i] = wire[t][1]

C10_Witness ==
    /\ frame[1].pc = "returned"
    /\ Len(wire[1]) = 3
    /\ frame[2].pc = "L81"
    /\ Len(wire[2]) = 1
    /\ wire[1][1].data # wire[2][1].data

====
